---- MODULE Spec2Model ----
(***************************************************************************)
(* Model of chromium/tools/merge_from_chromium.py: the manifest resolver   *)
(* (_ParseDEPS, _GetThirdPartyProjectMergeInfo), the revision locator      *)
(* (_GetSVNRevisionAndSHA1), Snapshot/_MergeProjects and main.             *)
(*                                                                         *)
(* Python strings are sequences of characters; the character "NL" is the   *)
(* line break, which '.' of a Python regular expression does not match.    *)
(***************************************************************************)
EXTENDS Integers, Sequences, FiniteSets, TLC

VARIABLES
  pc,              \* position of main / Snapshot / _MergeProjects / Push
  args,            \* TRUE when optparse left positional arguments (line 498)
  environ,         \* TRUE when ANDROID_BUILD_TOP is in os.environ (line 503)
  options,         \* the parsed options (lines 465-498)
  history,         \* commits of SRC_GIT_BRANCH as git log lists them, newest first
  local_head,      \* sha1 of the newest upstream commit reachable from the root HEAD
  svn_revision,    \* Snapshot's svn_revision after line 415
  root_sha1,       \* Snapshot's root_sha1 after line 415
  deps_vars,       \* _MergeProjects' deps_vars (line 156)
  merge_info,      \* _MergeProjects' merge_info (line 158)
  todo,            \* what the running for loop has still to visit
  staged,          \* projects whose index holds changes (git status ^[MADRC])
  ops,             \* the git/file operations executed so far, as [op, project]
  called,          \* which of GetLKGR, GetHEAD, Push, Snapshot main's run invoked
  error,           \* the exception that ended the run, or NoError
  exit_code,       \* main's return value, or NoExit
  snapshot_result, \* what Snapshot returned: "True", "False", or "none" before it returns
  directories_left_over, \* _MergeProjects' directories_left_over (line 225)
  merged,          \* per project visited: had it new commits, the exit status of git merge,
                   \* and whether conflicts were left after the conflict check
  index_changes,   \* [step, project]: the step's commands left a change in the project's index
  url_plus_sha1,   \* the manifest value handed to re.match (line 124)
  split_result,    \* what lines 124-126 produce from it
  custom_vars,     \* _VarImpl._custom_vars (line 78)
  local_scope,     \* _VarImpl._local_scope (line 79)
  var_name,        \* the argument of the last Var(...) call
  lookup_result    \* what that call returned or raised

runVars == <<pc, args, environ, options, history, local_head, svn_revision, root_sha1,
             deps_vars, merge_info, todo, staged, ops, called, error, exit_code,
             snapshot_result, directories_left_over, index_changes, merged>>

splitVars == <<url_plus_sha1, split_result>>

lookupVars == <<custom_vars, local_scope, var_name, lookup_result>>

vars == <<runVars, splitVars, lookupVars>>

(***************************************************************************)
(* Bounds                                                                  *)
(***************************************************************************)
MaxLen == 4

Chars == {"a", "@", "NL"}

Strings(n) == UNION {[1..k -> Chars] : k \in 0..n}

(***************************************************************************)
(* re.match of the url/sha1 pattern (lazy group, '@', greedy group),       *)
(* lines 124-126                                                           *)
(***************************************************************************)
AtPositions(s) == {i \in 1..Len(s) : s[i] = "@"}

Min(S) == CHOOSE x \in S : \A y \in S : x <= y

Max(S) == CHOOSE x \in S : \A y \in S : x >= y

\* '.' matches every character but the line break
Dot(c) == c # "NL"

\* end of the longest run of Dot characters that starts right after position i
RunEnd(s, i) == Max({j \in i..Len(s) : \A k \in (i+1)..j : Dot(s[k])})

\* split at every '@' and keep the first two fields: loses what follows a second '@'
ReMatchFirstTwoFields(s) ==
  IF AtPositions(s) = {} \/ \E k \in 1..(Min(AtPositions(s)) - 1) : ~Dot(s[k])
  THEN [matched |-> FALSE]
  ELSE LET i == Min(AtPositions(s))
           later == {j \in AtPositions(s) : j > i}
           e == IF later = {} THEN RunEnd(s, i) ELSE Min({Min(later) - 1, RunEnd(s, i)})
       IN [matched |-> TRUE, url |-> SubSeq(s, 1, i - 1), sha1 |-> SubSeq(s, i + 1, e)]

\* the lazy group stops at the first '@'; the greedy group runs to the end of the line
ReMatch(s) ==
  IF AtPositions(s) = {} \/ \E k \in 1..(Min(AtPositions(s)) - 1) : ~Dot(s[k])
  THEN [matched |-> FALSE]
  ELSE LET i == Min(AtPositions(s))
       IN [matched |-> TRUE, url |-> SubSeq(s, 1, i - 1),
           sha1 |-> SubSeq(s, i + 1, RunEnd(s, i))]

(***************************************************************************)
(* Python values.  A dict is a function whose DOMAIN is the set of its     *)
(* keys.  A manifest value is None, a string, or (unused here) an object.  *)
(***************************************************************************)
PyNone == [kind |-> "None", s |-> <<>>]

PyStr(s) == [kind |-> "str", s |-> s]

\* Python truth of a value returned by dict.get: None and '' are false
Truthy(v) == v.kind = "str" /\ v.s # <<>>

\* dict.get(key): the value, or None for a missing key
DictGet(d, key) == IF key \in DOMAIN d THEN d[key] ELSE PyNone

EmptyDict == [k \in {} |-> PyNone]

(***************************************************************************)
(* Exceptions.  TemporaryMergeError is the recoverable kind; every other   *)
(* class is a generic failure.                                             *)
(***************************************************************************)
NoError == [exc |-> "none", cause |-> "none", path |-> "none", dirs |-> {}]

Raise(exc, cause) == [exc |-> exc, cause |-> cause, path |-> "none", dirs |-> {}]

RaiseAt(exc, cause, path) == [exc |-> exc, cause |-> cause, path |-> path, dirs |-> {}]

RaiseDirs(exc, cause, dirs) == [exc |-> exc, cause |-> cause, path |-> "none", dirs |-> dirs]

(***************************************************************************)
(* _VarImpl.Lookup, lines 81-87                                            *)
(***************************************************************************)
VarNames == {"X", "Y"}

VarValues == {"1", "2"}

\* the manifest's vars entry wins over the override
LookupVarsFirst(cv, scope, name) ==
  IF "vars" \in DOMAIN scope /\ name \in DOMAIN scope["vars"]
  THEN [raised |-> FALSE, value |-> scope["vars"][name]]
  ELSE IF name \in DOMAIN cv THEN [raised |-> FALSE, value |-> cv[name]]
  ELSE [raised |-> TRUE, value |-> "Var is not defined"]

Lookup(cv, scope, name) ==
  IF name \in DOMAIN cv
  THEN [raised |-> FALSE, value |-> cv[name]]
  ELSE IF name \in DOMAIN (IF "vars" \in DOMAIN scope THEN scope["vars"] ELSE EmptyDict)
  THEN [raised |-> FALSE, value |-> scope["vars"][name]]
  ELSE [raised |-> TRUE, value |-> "Var is not defined"]

\* every dict from some of the names to values
VarTables == UNION {[D -> VarValues] : D \in SUBSET VarNames}

\* tmp_locals while the manifest runs: with or without a vars table
Scopes == {EmptyDict} \cup {[k \in {"vars"} |-> t] : t \in VarTables}

NoLookup == [raised |-> FALSE, value |-> "no call yet"]

(***************************************************************************)
(* _GetThirdPartyProjectMergeInfo, lines 97-129                            *)
(***************************************************************************)
ROOT == "."

WEBKIT == "third_party/WebKit"

THIRD_PARTY_PROJECTS == <<WEBKIT, "sdch">>

ALL_PROJECTS == <<ROOT>> \o THIRD_PARTY_PROJECTS

SeqRange(q) == {q[i] : i \in 1..Len(q)}

\* os.path.join('src', path)
SrcKey(path) == <<"src", path>>

\* the android table is consulted before the unix table
DepsFallbackOrderAndroidFirst(dv) == <<dv["deps"], dv["deps_os"]["android"], dv["deps_os"]["unix"]>>

\* the fallback tables in the order of lines 108-112
DepsFallbackOrder(dv) == <<dv["deps"], dv["deps_os"]["unix"], dv["deps_os"]["android"]>>

\* lines 115-118: indexes of the tables whose value for the path is true
Hits(order, path) == {t \in 1..Len(order) : Truthy(DictGet(order[t], SrcKey(path)))}

RECURSIVE ResolveFrom(_, _, _, _)
\* the for loop of lines 114-128 from the i-th project on, result being built
ResolveFrom(projects, order, i, result) ==
  IF i > Len(projects) THEN [kind |-> "ok", value |-> result, error |-> NoError]
  ELSE LET path == projects[i]
           hits == Hits(order, path)
       IN IF hits = {}
          THEN [kind |-> "raise", value |-> EmptyDict,
                error |-> RaiseAt("TemporaryMergeError", "manifest_entry_missing", path)]
          ELSE LET m == ReMatch(DictGet(order[Min(hits)], SrcKey(path)).s)
               IN IF ~m.matched
                  THEN [kind |-> "raise", value |-> EmptyDict,
                        error |-> RaiseAt("AttributeError", "malformed_manifest", path)]
                  ELSE ResolveFrom(projects, order, i + 1,
                         [p \in DOMAIN result \cup {path} |->
                            IF p = path THEN [url |-> m.url, sha1 |-> m.sha1]
                            ELSE result[p]])

RECURSIVE ResolveSkippingMissing(_, _, _, _)
\* a project without an entry is left out of the result instead of failing the call
ResolveSkippingMissing(projects, order, i, result) ==
  IF i > Len(projects) THEN [kind |-> "ok", value |-> result, error |-> NoError]
  ELSE LET path == projects[i]
           hits == Hits(order, path)
       IN IF hits = {}
          THEN ResolveSkippingMissing(projects, order, i + 1, result)
          ELSE LET m == ReMatch(DictGet(order[Min(hits)], SrcKey(path)).s)
               IN IF ~m.matched
                  THEN [kind |-> "raise", value |-> EmptyDict,
                        error |-> RaiseAt("AttributeError", "malformed_manifest", path)]
                  ELSE ResolveSkippingMissing(projects, order, i + 1,
                         [p \in DOMAIN result \cup {path} |->
                            IF p = path THEN [url |-> m.url, sha1 |-> m.sha1]
                            ELSE result[p]])

\* lines 108-112 index deps_vars before the loop: a missing key is a KeyError
MissingTable(dv) ==
  \/ "deps" \notin DOMAIN dv
  \/ "deps_os" \notin DOMAIN dv
  \/ "unix" \notin DOMAIN dv["deps_os"]
  \/ "android" \notin DOMAIN dv["deps_os"]

GetThirdPartyProjectMergeInfoSkipping(projects, dv) ==
  IF MissingTable(dv)
  THEN [kind |-> "raise", value |-> EmptyDict, error |-> Raise("KeyError", "manifest_table_missing")]
  ELSE ResolveSkippingMissing(projects, DepsFallbackOrder(dv), 1, EmptyDict)

GetThirdPartyProjectMergeInfo(projects, dv) ==
  IF MissingTable(dv)
  THEN [kind |-> "raise", value |-> EmptyDict, error |-> Raise("KeyError", "manifest_table_missing")]
  ELSE ResolveFrom(projects, DepsFallbackOrder(dv), 1, EmptyDict)

(***************************************************************************)
(* The manifests _GetThirdPartyProjectMergeInfo is applied to: every table *)
(* holds, for each project, no entry, None, a string without '@', or a     *)
(* url@sha1 string that names the table it stands in.                      *)
(***************************************************************************)
TableNames == {"deps", "unix", "android"}

GoodValue(t, path) == PyStr(<<t, "@", path>>)

CellValues(t, path) == {PyNone, PyStr(<<"a">>), GoodValue(t, path)}

AllCellValues == UNION {CellValues(t, path) : t \in TableNames, path \in SeqRange(THIRD_PARTY_PROJECTS)}

Keys == {SrcKey(path) : path \in SeqRange(THIRD_PARTY_PROJECTS)}

Tables(t) ==
  UNION {{f \in [D -> AllCellValues] : \A k \in D : f[k] \in CellValues(t, k[2])} : D \in SUBSET Keys}

DepsOsDicts ==
  {[k \in {"unix", "android"} |-> IF k = "unix" THEN u ELSE a] : u \in Tables("unix"), a \in Tables("android")}
  \cup {[k \in {"unix"} |-> u] : u \in Tables("unix")}
  \cup {[k \in {"android"} |-> a] : a \in Tables("android")}
  \cup {EmptyDict}

DepsVarsSet ==
  {[k \in {"deps", "deps_os"} |-> IF k = "deps" THEN d ELSE os] : d \in Tables("deps"), os \in DepsOsDicts}
  \cup {[k \in {"deps"} |-> d] : d \in Tables("deps")}
  \cup {EmptyDict}

(***************************************************************************)
(* The upstream branch.  A commit is its sha1, the revision of its own     *)
(* git-svn-id trailer (0: the message has none) and the revision of a      *)
(* trailer it quotes from an older commit, as a revert or reapply does     *)
(* (0: none).  git-svn numbers the commits of a branch in increasing       *)
(* order; sha1 k is the k-th oldest commit.                                *)
(***************************************************************************)
MaxCommits == 3

MaxRev == 10

None == 0

HEAD == -1

Revs == 1..MaxRev

Commit(sha, rev, quoted) == [sha1 |-> sha, rev |-> rev, quoted |-> quoted]

NewestRev(h) == Max({0} \cup {h[i].rev : i \in 1..Len(h)})

OwnRevs(h) == {h[i].rev : i \in 1..Len(h)} \ {0}

RECURSIVE DigitsBeginWith(_, _)
\* the decimal digits of r begin with the decimal digits of n
DigitsBeginWith(r, n) == r = n \/ (r >= 10 /\ DigitsBeginWith(r \div 10, n))

\* the numbers of the git-svn-id lines of a commit message, wherever they stand
TrailerNumbers(c) == {c.rev, c.quoted} \ {0}

\* git log --grep='git-svn-id: .*@<n>' (line 387): the pattern is not anchored at
\* its end, so it matches every trailer number that begins with the digits of n
GrepRevision(h, n) == SelectSeq(h, LAMBDA c : \E r \in TrailerNumbers(c) : DigitsBeginWith(r, n))

\* git log -n1 --grep=git-svn-id: (line 377)
GrepAnyTrailer(h) == SelectSeq(h, LAMBDA c : TrailerNumbers(c) # {})

\* the pattern without its line-start anchor: a quoted trailer is taken when the
\* message has no trailer of its own
ParseAnyTrailer(c) == IF c.rev # 0 THEN c.rev ELSE c.quoted

\* _ParseSvnRevisionFromGitCommitMessage, lines 357-359: the pattern is anchored at
\* the start of a line, which a quoted trailer is not; 0 stands for no match
ParseSvnRevisionFromGitCommitMessage(c) == c.rev

CommitOf(h, sha) == CHOOSE c \in SeqRange(h) : c.sha1 = sha

Located(rev, sha) == [kind |-> "ok", svn_revision |-> rev, sha1 |-> sha, error |-> NoError]

LocateRaise(e) == [kind |-> "raise", svn_revision |-> None, sha1 |-> None, error |-> e]

\* line 395 taking the first line of the log output: the newest match
PickNewest(output) == output[1].sha1

\* line 395: output.split()[-1], the last line of the log output
PickOldest(output) == output[Len(output)].sha1

\* _GetSVNRevisionAndSHA1, lines 368-396; lkgr is what GetLKGR() returns at line 385
GetSVNRevisionAndSHA1(h, revision, sha1, lkgr) ==
  IF sha1 # None
  THEN IF \A c \in SeqRange(h) : c.sha1 # sha1
       THEN LocateRaise(Raise("MergeError", "git_show_failed"))
       ELSE IF ParseSvnRevisionFromGitCommitMessage(CommitOf(h, sha1)) = 0
       THEN LocateRaise(Raise("AttributeError", "revision_trailer_missing"))
       ELSE Located(ParseSvnRevisionFromGitCommitMessage(CommitOf(h, sha1)), sha1)
  ELSE IF revision = HEAD
  THEN LET commit == GrepAnyTrailer(h)
       IN IF commit = <<>>
          THEN LocateRaise(Raise("IndexError", "revision_trailer_missing"))
          ELSE IF ParseSvnRevisionFromGitCommitMessage(commit[1]) = 0
          THEN LocateRaise(Raise("AttributeError", "revision_trailer_missing"))
          ELSE Located(ParseSvnRevisionFromGitCommitMessage(commit[1]), commit[1].sha1)
  ELSE LET n == IF revision = None THEN lkgr ELSE revision
           output == GrepRevision(h, n)
       IN IF output = <<>>
          THEN LocateRaise(Raise("TemporaryMergeError", "revision_not_found"))
          ELSE Located(n, PickOldest(output))

(***************************************************************************)
(* _ParseDEPS, lines 58-94.  A manifest text is whether it is valid        *)
(* Python, the vars table it assigns (if any), the names its deps          *)
(* expressions pass to Var, and the variables it assigns (tmp_locals).     *)
(***************************************************************************)
ManifestText(ok, scope, refs, locals) ==
  [syntax_ok |-> ok, scope |-> scope, var_refs |-> refs, locals |-> locals]

\* the exec of line 93 with Var bound to _VarImpl({}, tmp_locals).Lookup (line 90)
ParseDEPS(m) ==
  IF ~m.syntax_ok
  THEN [kind |-> "raise", value |-> EmptyDict, error |-> Raise("SyntaxError", "malformed_manifest")]
  ELSE IF \E n \in m.var_refs : Lookup(EmptyDict, m.scope, n).raised
  THEN [kind |-> "raise", value |-> EmptyDict, error |-> Raise("Exception", "var_undefined")]
  ELSE [kind |-> "ok", value |-> m.locals, error |-> NoError]

(***************************************************************************)
(* The run: main (lines 457-525), Snapshot (399-438), _MergeProjects       *)
(* (132-229), the generators (232-331) and Push (441-454).                 *)
(***************************************************************************)
MaxDirs == 2

Directories == 1..MaxDirs

NoExit == [returned |-> FALSE, code |-> 0]

Exit(code) == [returned |-> TRUE, code |-> code]

Op(op, project) == [op |-> op, project |-> project, branch |-> ""]

\* what happened to a project in the merge loop
Merge(project, new, exit, residual) ==
  [project |-> project, new |-> new, exit |-> exit, residual |-> residual]

\* a non-zero exit of git merge raises MergeError
MergeExitAbortsOnFailure(exit) == exit # 0

\* lines 181-182 and 194-195: git merge runs with ignore_errors=True
MergeExitAborts(exit) == FALSE

\* the commands of a step left a change in the index of a project
Change(step, project) == [step |-> step, project |-> project]

\* '%s' % svn_revision: the revision as a string; HEAD is the string 'HEAD'
RevText(rev) == IF rev = HEAD THEN "HEAD" ELSE ToString(rev)

\* lines 153 and 443: 'merge-from-chromium-%s' % svn_revision
BranchName(rev) == "merge-from-chromium-" \o RevText(rev)

\* line 454: src + ':' + branch
Refspec(src, branch) == src \o ":" \o branch

\* lines 171-174 and 191-193: git checkout -b/-B branch_name, in _MergeProjects,
\* whose svn_revision is the one Snapshot located
CheckoutOp(project) ==
  [op |-> "checkout", project |-> project, branch |-> BranchName(svn_revision)]

\* lines 453-454: git push -f remote src:branch, in Push(options.svn_revision)
PushOp(project, branch) ==
  [op |-> "push", project |-> project,
   branch |-> Refspec(BranchName(options.svn_revision), branch)]

\* the dict imported at line 212, as the projects it lists
KNOWN_INCOMPATIBLE == {ROOT, WEBKIT}

PUSH_BRANCHES == <<"master-chromium-merge", "master-chromium">>

\* the status test of line 287 taken to match always
ModifiedFilesInIndexAlways(index, cwd) == TRUE

\* _ModifiedFilesInIndex, lines 283-287
ModifiedFilesInIndex(index, cwd) == cwd \in index

\* merge_common.CheckNoConflictsAndCommitMerge: a residual conflict is a fatal failure
CheckNoConflictsAndCommitMerge(conflict) ==
  IF conflict THEN Raise("MergeError", "merge_conflict") ELSE NoError

\* the exception leaves main: the process ends without a return value
Fail(e) ==
  /\ error' = e
  /\ pc' = "raised"
  /\ exit_code' = exit_code

Return(code) ==
  /\ exit_code' = Exit(code)
  /\ pc' = "done"
  /\ error' = error

Goto(label) ==
  /\ pc' = label
  /\ error' = error
  /\ exit_code' = exit_code

pureVars == <<splitVars, lookupVars>>

scanVars == <<snapshot_result, directories_left_over>>

inputVars == <<args, environ, options, history>>

\* lines 499-501
MainUsage ==
  /\ pc = "main"
  /\ args
  /\ Return(1)
  /\ UNCHANGED <<inputVars, index_changes, merged, local_head, svn_revision, root_sha1, deps_vars, merge_info,
                 todo, staged, ops, called, pureVars, scanVars>>

\* lines 503-505
MainNoEnvironment ==
  /\ pc = "main"
  /\ ~args
  /\ ~environ
  /\ Return(1)
  /\ UNCHANGED <<inputVars, index_changes, merged, local_head, svn_revision, root_sha1, deps_vars, merge_info,
                 todo, staged, ops, called, pureVars, scanVars>>

\* the environment check of line 503 left out
UsableIgnoringEnvironment == ~args

\* lines 499-505 passed: no positional argument, and the environment is set up
Usable == ~args /\ environ

\* lines 510-511 and 525
MainGetLKGR ==
  /\ pc = "main"
  /\ Usable
  /\ options.get_lkgr
  /\ called' = called \cup {"GetLKGR"}
  /\ Return(0)
  /\ UNCHANGED <<inputVars, index_changes, merged, local_head, svn_revision, root_sha1, deps_vars, merge_info,
                 todo, staged, ops, pureVars, scanVars>>

\* lines 512-514 and 525, with GetHEAD (345-354)
MainGetHEAD ==
  /\ pc = "main"
  /\ Usable
  /\ ~options.get_lkgr
  /\ options.get_head
  /\ called' = called \cup {"GetHEAD"}
  /\ LET r == GetSVNRevisionAndSHA1(history, HEAD, None, None)
     IN IF r.kind = "raise" THEN Fail(r.error) ELSE Return(0)
  /\ UNCHANGED <<inputVars, index_changes, merged, local_head, svn_revision, root_sha1, deps_vars, merge_info,
                 todo, staged, ops, pureVars, scanVars>>

\* lines 515-518
MainPushWithoutRevision ==
  /\ pc = "main"
  /\ Usable
  /\ ~options.get_lkgr
  /\ ~options.get_head
  /\ options.push
  /\ options.svn_revision = None
  /\ Return(1)
  /\ UNCHANGED <<inputVars, index_changes, merged, local_head, svn_revision, root_sha1, deps_vars, merge_info,
                 todo, staged, ops, called, pureVars, scanVars>>

\* the loops nested the other way round: both branches of a project, then the next
PushOrderProjectFirst ==
  [k \in 1..(Len(PUSH_BRANCHES) * Len(ALL_PROJECTS)) |->
     <<PUSH_BRANCHES[((k - 1) % Len(PUSH_BRANCHES)) + 1],
       ALL_PROJECTS[((k - 1) \div Len(PUSH_BRANCHES)) + 1]>>]

\* the (branch, project) pairs in the order the loops of lines 444-446 visit them
PushOrder ==
  [k \in 1..(Len(PUSH_BRANCHES) * Len(ALL_PROJECTS)) |->
     <<PUSH_BRANCHES[((k - 1) \div Len(ALL_PROJECTS)) + 1],
       ALL_PROJECTS[((k - 1) % Len(ALL_PROJECTS)) + 1]>>]

\* lines 519-520: Push is entered
MainPush ==
  /\ pc = "main"
  /\ Usable
  /\ ~options.get_lkgr
  /\ ~options.get_head
  /\ options.push
  /\ options.svn_revision # None
  /\ called' = called \cup {"Push"}
  /\ todo' = PushOrder
  /\ Goto("push")
  /\ UNCHANGED <<inputVars, index_changes, merged, local_head, svn_revision, root_sha1, deps_vars, merge_info,
                 staged, ops, pureVars, scanVars>>

\* lines 453-454, one git push; a failing command raises MergeError
PushOne ==
  /\ pc = "push"
  /\ todo # <<>>
  /\ \E ok \in BOOLEAN :
       IF ok
       THEN /\ ops' = ops \cup {PushOp(todo[1][2], todo[1][1])}
            /\ todo' = Tail(todo)
            /\ IF Tail(todo) = <<>> THEN Return(0) ELSE Goto("push")
       ELSE /\ Fail(Raise("MergeError", "push_failed"))
            /\ UNCHANGED <<ops, todo>>
  /\ UNCHANGED <<inputVars, index_changes, merged, local_head, svn_revision, root_sha1, deps_vars, merge_info,
                 staged, called, pureVars, scanVars>>

\* lines 521-522: Snapshot is entered
MainSnapshot ==
  /\ pc = "main"
  /\ Usable
  /\ ~options.get_lkgr
  /\ ~options.get_head
  /\ ~options.push
  /\ called' = called \cup {"Snapshot"}
  /\ Goto("locate")
  /\ UNCHANGED <<inputVars, index_changes, merged, local_head, svn_revision, root_sha1, deps_vars, merge_info,
                 todo, staged, ops, pureVars, scanVars>>

\* line 415: _GetSVNRevisionAndSHA1; GetLKGR (line 385) returns any revision
Locate ==
  /\ pc = "locate"
  /\ \E lkgr \in IF options.sha1 = None /\ options.svn_revision = None THEN Revs ELSE {None} :
       LET r == GetSVNRevisionAndSHA1(history, options.svn_revision, options.sha1, lkgr)
       IN /\ IF r.kind = "raise"
             THEN Fail(r.error) /\ UNCHANGED <<svn_revision, root_sha1>>
             ELSE /\ svn_revision' = r.svn_revision
                  /\ root_sha1' = r.sha1
                  /\ Goto("rev_list")
  /\ called' = IF options.sha1 = None /\ options.svn_revision = None
               THEN called \cup {"GetLKGR"} ELSE called
  /\ UNCHANGED <<inputVars, index_changes, merged, local_head, deps_vars, merge_info, todo, staged, ops, pureVars, scanVars>>

\* the tip of HEAD itself is taken for a new commit
RevListEmptyStrict(head, sha1) == sha1 < head

\* git rev-list -1 HEAD..sha1 prints nothing when sha1 is reachable from HEAD
RevListEmpty(head, sha1) == sha1 <= head

\* lines 417-421, and lines 522-523 of main when Snapshot returns False
NoNewCommits ==
  /\ pc = "rev_list"
  /\ RevListEmpty(local_head, root_sha1)
  /\ snapshot_result' = "False"
  /\ Return(options.no_changes_exit)
  /\ UNCHANGED <<inputVars, index_changes, merged, local_head, svn_revision, root_sha1, deps_vars, merge_info,
                 todo, staged, ops, called, pureVars, directories_left_over>>

\* the manifests read at line 92 in the runs explored
RunManifests ==
  LET full(d, u, a) == [k \in {"deps", "deps_os"} |->
                           IF k = "deps" THEN d
                           ELSE [o \in {"unix", "android"} |-> IF o = "unix" THEN u ELSE a]]
      both == [k \in Keys |-> GoodValue("deps", k[2])]
      webkit(t) == [k \in {SrcKey(WEBKIT)} |-> GoodValue(t, WEBKIT)]
      sdch(t) == [k \in {SrcKey("sdch")} |-> GoodValue(t, "sdch")]
      x == [k \in {"vars"} |-> [n \in {"X"} |-> "1"]]
  IN {ManifestText(TRUE, x, {"X"}, full(both, EmptyDict, EmptyDict)),
      ManifestText(TRUE, x, {"X"}, full(webkit("deps"), EmptyDict, sdch("android"))),
      ManifestText(TRUE, EmptyDict, {}, full(webkit("deps"), EmptyDict, EmptyDict)),
      ManifestText(TRUE, x, {"X", "Y"}, full(both, EmptyDict, EmptyDict)),
      ManifestText(TRUE, EmptyDict, {"X"}, full(both, EmptyDict, EmptyDict)),
      ManifestText(FALSE, EmptyDict, {}, EmptyDict),
      ManifestText(TRUE, EmptyDict, {}, [k \in {"deps"} |-> both])}

\* lines 155-156
ParseManifest ==
  /\ pc = "parse_deps"
  /\ \E m \in RunManifests :
       LET r == ParseDEPS(m)
       IN IF r.kind = "raise"
          THEN Fail(r.error) /\ UNCHANGED deps_vars
          ELSE deps_vars' = r.value /\ Goto("merge_info")
  /\ ops' = ops \cup {Op("show_manifest", ROOT)}
  /\ UNCHANGED <<inputVars, index_changes, merged, local_head, svn_revision, root_sha1, merge_info, todo, staged,
                 called, pureVars, scanVars>>

\* lines 422-427: Snapshot goes on to _MergeProjects
NewCommits ==
  /\ pc = "rev_list"
  /\ ~RevListEmpty(local_head, root_sha1)
  /\ Goto("parse_deps")
  /\ UNCHANGED <<inputVars, index_changes, merged, local_head, svn_revision, root_sha1, deps_vars, merge_info,
                 todo, staged, ops, called, pureVars, scanVars>>

\* lines 158-159
GetMergeInfo ==
  /\ pc = "merge_info"
  /\ LET r == GetThirdPartyProjectMergeInfo(THIRD_PARTY_PROJECTS, deps_vars)
     IN IF r.kind = "raise"
        THEN Fail(r.error) /\ UNCHANGED <<merge_info, todo>>
        ELSE /\ merge_info' = r.value
             /\ todo' = DOMAIN r.value
             /\ Goto(IF DOMAIN r.value = {} THEN "merge_root" ELSE "merge_loop")
  /\ UNCHANGED <<inputVars, index_changes, merged, local_head, svn_revision, root_sha1, deps_vars, staged, ops,
                 called, pureVars, scanVars>>

\* lines 171-177: the checkout of the merge branch and, unless mirrored, the fetch
CheckoutAndFetch(path) ==
  {CheckoutOp(path)} \cup (IF path = WEBKIT THEN {} ELSE {Op("fetch", path)})

\* lines 161-188, one pass of the loop; a dict is visited in no particular order.
\* git merge exits non-zero when it leaves conflicts; the conflict check may
\* still find none left
MergeProject ==
  /\ pc = "merge_loop"
  /\ \E path \in todo, new \in BOOLEAN, exit \in {0, 1}, residual \in BOOLEAN :
       /\ ~new => (exit = 0 /\ ~residual)
       /\ residual => exit = 1
       /\ merged' = merged \cup {Merge(path, new, exit, residual)}
       /\ IF ~new
          THEN /\ ops' = ops \cup CheckoutAndFetch(path)
               /\ todo' = todo \ {path}
               /\ Goto(IF todo \ {path} = {} THEN "merge_root" ELSE "merge_loop")
          ELSE IF MergeExitAborts(exit)
          THEN /\ ops' = ops \cup CheckoutAndFetch(path) \cup {Op("merge", path)}
               /\ Fail(Raise("MergeError", "merge_failed"))
               /\ UNCHANGED todo
          ELSE IF CheckNoConflictsAndCommitMerge(residual) # NoError
          THEN /\ ops' = ops \cup CheckoutAndFetch(path) \cup {Op("merge", path)}
               /\ Fail(CheckNoConflictsAndCommitMerge(residual))
               /\ UNCHANGED todo
          ELSE /\ ops' = ops \cup CheckoutAndFetch(path)
                             \cup {Op("merge", path), Op("commit_merge", path)}
               /\ todo' = todo \ {path}
               /\ Goto(IF todo \ {path} = {} THEN "merge_root" ELSE "merge_loop")
  /\ UNCHANGED <<inputVars, index_changes, local_head, svn_revision, root_sha1, deps_vars,
                 merge_info, staged, called, pureVars, scanVars>>

\* lines 190-200: the root repository
MergeRoot ==
  /\ pc = "merge_root"
  /\ \E exit \in {0, 1}, residual \in BOOLEAN :
       /\ residual => exit = 1
       /\ merged' = merged \cup {Merge(ROOT, TRUE, exit, residual)}
       /\ IF MergeExitAborts(exit)
          THEN /\ ops' = ops \cup {CheckoutOp(ROOT), Op("merge", ROOT)}
               /\ Fail(Raise("MergeError", "merge_failed"))
               /\ UNCHANGED <<todo, local_head>>
          ELSE IF CheckNoConflictsAndCommitMerge(residual) # NoError
          THEN /\ ops' = ops \cup {CheckoutOp(ROOT), Op("merge", ROOT)}
               /\ Fail(CheckNoConflictsAndCommitMerge(residual))
               /\ UNCHANGED <<todo, local_head>>
          ELSE /\ ops' = ops \cup {CheckoutOp(ROOT), Op("merge", ROOT), Op("commit_merge", ROOT)}
               /\ local_head' = Max({local_head, root_sha1})
               /\ todo' = KNOWN_INCOMPATIBLE
               /\ Goto("exclude")
  /\ UNCHANGED <<inputVars, index_changes, svn_revision, root_sha1, deps_vars, merge_info,
                 staged, called, pureVars, scanVars>>

\* lines 214-223, one pass of the loop: git rm, and a commit if the index changed
ExcludePath ==
  /\ pc = "exclude"
  /\ \E path \in todo, removed \in BOOLEAN :
       LET index == IF removed THEN staged \cup {path} ELSE staged
       IN /\ ops' = ops \cup {Op("rm_excluded", path)}
                        \cup (IF ModifiedFilesInIndex(index, path)
                              THEN {Op("commit_exclude", path)} ELSE {})
          /\ staged' = index \ {path}
          /\ index_changes' = index_changes \cup (IF removed THEN {Change("exclude", path)} ELSE {})
          /\ todo' = todo \ {path}
          /\ Goto(IF todo \ {path} = {} THEN "scan" ELSE "exclude")
  /\ UNCHANGED <<inputVars, merged, local_head, svn_revision, root_sha1, deps_vars, merge_info,
                 called, pureVars, scanVars>>

\* lines 226-229 reporting only more than one leftover directory
LeftOverErrorMoreThanOne(dirs) ==
  IF Cardinality(dirs) > 1
  THEN RaiseDirs("TemporaryMergeError", "incompatible_directories", dirs)
  ELSE NoError

\* lines 226-229: the error raised for the directories the scan reports
LeftOverError(dirs) ==
  IF dirs # {}
  THEN RaiseDirs("TemporaryMergeError", "incompatible_directories", dirs)
  ELSE NoError

\* lines 225-229; on success _MergeProjects returns and its locals are gone
ScanLicenses ==
  /\ pc = "scan"
  /\ \E dirs \in SUBSET Directories :
       /\ directories_left_over' = dirs
       /\ ops' = ops \cup {Op("license_scan", ROOT)}
       /\ IF LeftOverError(dirs) # NoError
          THEN /\ Fail(LeftOverError(dirs))
               /\ UNCHANGED <<deps_vars, merge_info>>
          ELSE /\ deps_vars' = EmptyDict
               /\ merge_info' = EmptyDict
               /\ Goto("notice")
  /\ UNCHANGED <<inputVars, index_changes, merged, local_head, svn_revision, root_sha1, todo, staged, called,
                 pureVars, snapshot_result>>

\* a generated file is written and added, and committed if the index changed
WriteAddCommit(file_op, commit_op, changed) ==
  LET index == IF changed THEN staged \cup {ROOT} ELSE staged
  IN /\ ops' = ops \cup {Op(file_op, ROOT)}
                   \cup (IF ModifiedFilesInIndex(index, ROOT) THEN {Op(commit_op, ROOT)} ELSE {})
     /\ staged' = index \ {ROOT}
     /\ index_changes' = index_changes \cup (IF changed THEN {Change(file_op, ROOT)} ELSE {})

\* _GenerateNoticeFile, lines 290-311
GenerateNoticeFile ==
  /\ pc = "notice"
  /\ \E changed \in BOOLEAN : WriteAddCommit("write_notice", "commit_notice", changed)
  /\ Goto("lastchange")
  /\ UNCHANGED <<inputVars, merged, local_head, svn_revision, root_sha1, deps_vars, merge_info,
                 todo, called, pureVars, scanVars>>

\* _GenerateLastChange, lines 314-331
GenerateLastChange ==
  /\ pc = "lastchange"
  /\ \E changed \in BOOLEAN : WriteAddCommit("write_lastchange", "commit_lastchange", changed)
  /\ Goto("makefiles")
  /\ UNCHANGED <<inputVars, merged, local_head, svn_revision, root_sha1, deps_vars, merge_info,
                 todo, called, pureVars, scanVars>>

\* _GenerateMakefiles, lines 245-249: the generated files are removed everywhere
RemoveMakefiles ==
  /\ pc = "makefiles"
  /\ \E removed \in SUBSET SeqRange(ALL_PROJECTS) :
       /\ staged' = staged \cup removed
       /\ ops' = ops \cup {Op("rm_makefiles", p) : p \in SeqRange(ALL_PROJECTS)}
  /\ Goto("gyp")
  /\ UNCHANGED <<inputVars, index_changes, merged, local_head, svn_revision, root_sha1, deps_vars, merge_info,
                 todo, called, pureVars, scanVars>>

\* the failure is passed on as it is in both modes
GeneratorFailureAlwaysGeneric(unattended) == Raise("MergeError", "generator_failed")

\* lines 253-262: what a failure of the generator turns into
GeneratorFailure(unattended) ==
  IF unattended THEN Raise("TemporaryMergeError", "generator_failed")
  ELSE Raise("MergeError", "generator_failed")

\* every project is reset in attended mode too
ResetOnFailureInBothModes(unattended) == {Op("reset_hard", p) : p \in SeqRange(ALL_PROJECTS)}

\* only the root repository is reset
ResetOnFailureRootOnly(unattended) == IF unattended THEN {Op("reset_hard", ROOT)} ELSE {}

\* lines 254-260: the git reset --hard of every project, in unattended mode only
ResetOnFailure(unattended) ==
  IF unattended THEN {Op("reset_hard", p) : p \in SeqRange(ALL_PROJECTS)} ELSE {}

\* _GenerateMakefiles, lines 251-262: the generator runs
RunGenerator ==
  /\ pc = "gyp"
  /\ \E ok \in BOOLEAN :
       IF ok
       THEN /\ todo' = ALL_PROJECTS
            /\ Goto("add_makefiles")
            /\ UNCHANGED <<staged, ops>>
       ELSE /\ Fail(GeneratorFailure(options.unattended))
            /\ staged' = IF options.unattended THEN {} ELSE staged
            /\ ops' = ops \cup ResetOnFailure(options.unattended)
            /\ UNCHANGED todo
  /\ UNCHANGED <<inputVars, index_changes, merged, local_head, svn_revision, root_sha1, deps_vars, merge_info,
                 called, pureVars, scanVars>>

\* _GenerateMakefiles, lines 264-280, one pass of the loop; after the last one
\* Snapshot returns True (line 438) and main returns 0 (line 525)
AddMakefiles ==
  /\ pc = "add_makefiles"
  /\ todo # <<>>
  /\ \E differs \in BOOLEAN :
       LET path == todo[1]
           index == IF differs THEN staged \cup {path} ELSE staged \ {path}
       IN /\ ops' = ops \cup {Op("add_makefiles", path)}
                        \cup (IF ModifiedFilesInIndex(index, path)
                              THEN {Op("commit_makefiles", path)} ELSE {})
          /\ staged' = index \ {path}
          /\ index_changes' = index_changes \cup (IF differs THEN {Change("makefiles", path)} ELSE {})
  /\ todo' = Tail(todo)
  /\ IF Tail(todo) = <<>>
     THEN snapshot_result' = "True" /\ Return(0)
     ELSE snapshot_result' = snapshot_result /\ Goto("add_makefiles")
  /\ UNCHANGED <<inputVars, merged, local_head, svn_revision, root_sha1, deps_vars, merge_info,
                 called, pureVars, directories_left_over>>

(***************************************************************************)
(* Specifications                                                          *)
(***************************************************************************)
NotSplit == [matched |-> FALSE, pending |-> TRUE]

SplitInit ==
  /\ url_plus_sha1 \in Strings(MaxLen)
  /\ split_result = NotSplit

\* lines 124-126 applied to the value
SplitValue ==
  /\ split_result = NotSplit
  /\ split_result' = ReMatch(url_plus_sha1)
  /\ UNCHANGED url_plus_sha1

IdleSplit ==
  /\ url_plus_sha1 = <<>>
  /\ split_result = NotSplit

IdleLookup ==
  /\ custom_vars = EmptyDict
  /\ local_scope = EmptyDict
  /\ var_name = "X"
  /\ lookup_result = NoLookup

IdleLocals ==
  /\ svn_revision = None
  /\ root_sha1 = None
  /\ deps_vars = EmptyDict
  /\ merge_info = EmptyDict
  /\ todo = <<>>
  /\ staged = {}
  /\ ops = {}
  /\ error = NoError
  /\ exit_code = NoExit
  /\ snapshot_result = "none"
  /\ directories_left_over = {}
  /\ index_changes = {}
  /\ merged = {}

\* the upstream branches of the runs explored: a revert that quotes r1, a tip that
\* quotes r1 and has no trailer of its own, r11 above r2, and a single commit
\* without a trailer
RunHistories ==
  {<<Commit(2, 2, 1), Commit(1, 1, 0)>>,
   <<Commit(2, 0, 1), Commit(1, 1, 0)>>,
   <<Commit(2, 11, 0), Commit(1, 2, 0)>>,
   <<Commit(1, 0, 0)>>}

RunOptions ==
  [svn_revision : {None, HEAD, 1, 2}, sha1 : {None, 1, 2}, push : BOOLEAN,
   get_lkgr : BOOLEAN, get_head : BOOLEAN, unattended : BOOLEAN, no_changes_exit : {0, 3}]

Init ==
  /\ pc = "main"
  /\ args \in BOOLEAN
  /\ environ \in BOOLEAN
  /\ options \in RunOptions
  /\ history \in RunHistories
  /\ local_head \in 0..Len(history)
  /\ called = {}
  /\ IdleLocals
  /\ IdleSplit
  /\ IdleLookup

Next ==
  \/ MainUsage
  \/ MainNoEnvironment
  \/ MainGetLKGR
  \/ MainGetHEAD
  \/ MainPushWithoutRevision
  \/ MainPush
  \/ PushOne
  \/ MainSnapshot
  \/ Locate
  \/ NoNewCommits
  \/ NewCommits
  \/ ParseManifest
  \/ GetMergeInfo
  \/ MergeProject
  \/ MergeRoot
  \/ ExcludePath
  \/ ScanLicenses
  \/ GenerateNoticeFile
  \/ GenerateLastChange
  \/ RemoveMakefiles
  \/ RunGenerator
  \/ AddMakefiles

Spec == Init /\ [][Next]_vars

\* _GetSVNRevisionAndSHA1 as Snapshot calls it, on every upstream branch within the bounds:
\* the branch grows commit by commit and the locator may run at any point
LocateOptions ==
  {o \in [svn_revision : {None, HEAD} \cup Revs, sha1 : 0..MaxCommits, push : {FALSE},
          get_lkgr : {FALSE}, get_head : {FALSE}, unattended : {FALSE}, no_changes_exit : {0}] :
     o.sha1 # None => o.svn_revision \in {None, HEAD, 1}}

LocateInit ==
  /\ pc = "locate"
  /\ args = FALSE
  /\ environ = TRUE
  /\ options \in LocateOptions
  /\ history = <<>>
  /\ local_head = 0
  /\ called = {"Snapshot"}
  /\ IdleLocals
  /\ IdleSplit
  /\ IdleLookup

\* upstream gains a commit: git-svn gives it the next revision, and its message may
\* quote the trailer of an older commit
UpstreamCommit ==
  /\ pc = "locate"
  /\ Len(history) < MaxCommits
  /\ \E r \in {0} \cup {x \in Revs : x > NewestRev(history)}, q \in {0} \cup OwnRevs(history) :
       history' = <<Commit(Len(history) + 1, r, q)>> \o history
  /\ UNCHANGED <<pc, args, environ, options, index_changes, merged, local_head, svn_revision, root_sha1, deps_vars,
                 merge_info, todo, staged, ops, called, error, exit_code, pureVars, scanVars>>

LocateNext == UpstreamCommit \/ Locate

LocateSpec == LocateInit /\ [][LocateNext]_vars

\* _MergeProjects from line 158 to the end of its first loop, on every manifest
MergeInit ==
  /\ pc = "merge_info"
  /\ args = FALSE
  /\ environ = TRUE
  /\ options = [svn_revision |-> 2, sha1 |-> None, push |-> FALSE, get_lkgr |-> FALSE,
                get_head |-> FALSE, unattended |-> FALSE, no_changes_exit |-> 0]
  /\ history = <<Commit(2, 2, 1), Commit(1, 1, 0)>>
  /\ local_head = 1
  /\ called = {"Snapshot"}
  /\ svn_revision = 2
  /\ root_sha1 = 2
  /\ deps_vars \in DepsVarsSet
  /\ merge_info = EmptyDict
  /\ todo = <<>>
  /\ staged = {}
  /\ ops = {}
  /\ error = NoError
  /\ exit_code = NoExit
  /\ snapshot_result = "none"
  /\ directories_left_over = {}
  /\ index_changes = {}
  /\ merged = {}
  /\ IdleSplit
  /\ IdleLookup

MergeNext == GetMergeInfo \/ MergeProject

MergeSpec == MergeInit /\ [][MergeNext]_vars

IdleRun ==
  /\ pc = "idle"
  /\ args = FALSE
  /\ environ = TRUE
  /\ options = [svn_revision |-> None, sha1 |-> None, push |-> FALSE, get_lkgr |-> FALSE,
                get_head |-> FALSE, unattended |-> FALSE, no_changes_exit |-> 0]
  /\ history = <<>>
  /\ local_head = 0
  /\ called = {}
  /\ IdleLocals

\* lines 124-126 on every string within the bound
SplitSpecInit ==
  /\ SplitInit
  /\ IdleRun
  /\ IdleLookup

SplitNext == SplitValue /\ UNCHANGED <<runVars, lookupVars>>

SplitSpec == SplitSpecInit /\ [][SplitNext]_vars

\* Var(name) on every override table and every manifest scope
LookupInit ==
  /\ custom_vars \in VarTables
  /\ local_scope \in Scopes
  /\ var_name = "X"
  /\ lookup_result = NoLookup
  /\ IdleRun
  /\ IdleSplit

CallVar ==
  /\ \E name \in VarNames :
       /\ var_name' = name
       /\ lookup_result' = Lookup(custom_vars, local_scope, name)
  /\ UNCHANGED <<custom_vars, local_scope, runVars, splitVars>>

LookupSpec == LookupInit /\ [][CallVar]_vars

\* Snapshot runs that the caller re-invokes, with the same options, after a
\* TemporaryMergeError; the repositories are as the failed run left them
RetryOptions ==
  [svn_revision : {HEAD, 2}, sha1 : {None, 2}, push : {FALSE}, get_lkgr : {FALSE},
   get_head : {FALSE}, unattended : BOOLEAN, no_changes_exit : {3}]

RetryInit ==
  /\ pc = "main"
  /\ args = FALSE
  /\ environ = TRUE
  /\ options \in RetryOptions
  /\ history = <<Commit(2, 2, 1), Commit(1, 1, 0)>>
  /\ local_head = 1
  /\ called = {}
  /\ IdleLocals
  /\ IdleSplit
  /\ IdleLookup

\* line 527 run again: a new process, whose main starts from line 457 with nothing
\* left of the failed run but the state of the repositories
Retry ==
  /\ pc = "raised"
  /\ error.exc = "TemporaryMergeError"
  /\ pc' = "main"
  /\ error' = NoError
  /\ exit_code' = NoExit
  /\ called' = {}
  /\ svn_revision' = None
  /\ root_sha1' = None
  /\ deps_vars' = EmptyDict
  /\ merge_info' = EmptyDict
  /\ todo' = <<>>
  /\ snapshot_result' = "none"
  /\ directories_left_over' = {}
  /\ UNCHANGED <<inputVars, local_head, staged, ops, merged, index_changes, pureVars>>

RetryNext ==
  \/ MainSnapshot
  \/ Locate
  \/ NoNewCommits
  \/ NewCommits
  \/ ParseManifest
  \/ GetMergeInfo
  \/ MergeProject
  \/ MergeRoot
  \/ ExcludePath
  \/ ScanLicenses
  \/ GenerateNoticeFile
  \/ GenerateLastChange
  \/ RemoveMakefiles
  \/ RunGenerator
  \/ AddMakefiles
  \/ Retry

RetrySpec == RetryInit /\ [][RetryNext]_vars

\* a Snapshot run for a given --svn_revision, and then the tool run again with
\* --push and the same --svn_revision
BranchOptions ==
  [svn_revision : {HEAD, 1, 2}, sha1 : {None}, push : {FALSE}, get_lkgr : {FALSE},
   get_head : {FALSE}, unattended : BOOLEAN, no_changes_exit : {0}]

BranchInit ==
  /\ pc = "main"
  /\ args = FALSE
  /\ environ = TRUE
  /\ options \in BranchOptions
  /\ history \in RunHistories
  /\ local_head = 0
  /\ called = {}
  /\ IdleLocals
  /\ IdleSplit
  /\ IdleLookup

\* line 527 run again with --push added, after Snapshot returned True: a new
\* process, with the repositories as the merge left them
PushMerge ==
  /\ pc = "done"
  /\ snapshot_result = "True"
  /\ ~options.push
  /\ options' = [options EXCEPT !.push = TRUE]
  /\ pc' = "main"
  /\ exit_code' = NoExit
  /\ called' = {}
  /\ svn_revision' = None
  /\ root_sha1' = None
  /\ todo' = <<>>
  /\ snapshot_result' = "none"
  /\ UNCHANGED <<args, environ, history, local_head, deps_vars, merge_info, staged, ops,
                 merged, index_changes, error, directories_left_over, pureVars>>

BranchNext ==
  \/ MainSnapshot
  \/ Locate
  \/ NewCommits
  \/ ParseManifest
  \/ GetMergeInfo
  \/ MergeProject
  \/ MergeRoot
  \/ ExcludePath
  \/ ScanLicenses
  \/ GenerateNoticeFile
  \/ GenerateLastChange
  \/ RemoveMakefiles
  \/ RunGenerator
  \/ AddMakefiles
  \/ PushMerge
  \/ MainPush
  \/ PushOne

BranchSpec == BranchInit /\ [][BranchNext]_vars

(***************************************************************************)
(* Claims about the manifest resolver, checked under MergeSpec             *)
(***************************************************************************)
\* the three tables in the priority the claims name: deps, unix, android
PriorityTables(dv) == <<dv["deps"], dv["deps_os"]["unix"], dv["deps_os"]["android"]>>

PriorityNames == <<"deps", "unix", "android">>

\* _GetThirdPartyProjectMergeInfo returned its mapping
MergeInfoReturned == pc \in {"merge_loop", "merge_root"} /\ ~MissingTable(deps_vars)

\* the tables that hold an entry for 'src/' + path, whatever its value
Holders(dv, path) == {t \in 1..3 : SrcKey(path) \in DOMAIN PriorityTables(dv)[t]}

\* the tables that hold a non-empty value for 'src/' + path
NonEmptyHolders(dv, path) ==
  {t \in Holders(dv, path) : PriorityTables(dv)[t][SrcKey(path)] \notin {PyNone, PyStr(<<>>)}}

\* the url and sha1 of the path are those of table t
ComesFrom(dv, path, t) ==
  /\ merge_info[path].url = <<PriorityNames[t]>>
  /\ merge_info[path].url \o <<"@">> \o merge_info[path].sha1 = PriorityTables(dv)[t][SrcKey(path)].s

\* C1 as stated: for every requested project the returned url/sha1 come from the
\* first of deps, deps_os['unix'], deps_os['android'] that holds an entry for
\* 'src/' + path, never from a lower-priority table.
C1_FirstTableHoldingAnEntry ==
  MergeInfoReturned =>
    \A path \in SeqRange(THIRD_PARTY_PROJECTS) :
      /\ path \in DOMAIN merge_info
      /\ Holders(deps_vars, path) # {}
      /\ ComesFrom(deps_vars, path, Min(Holders(deps_vars, path)))

\* C1 amended: for every requested project the returned url/sha1 come from the
\* first of deps, deps_os['unix'], deps_os['android'] that holds a non-empty value
\* for 'src/' + path (an entry whose value is None or '' counts as absent); among
\* the tables with a non-empty value a lower-priority one is never used.
C1_FirstTableWithNonEmptyValue ==
  MergeInfoReturned =>
    \A path \in SeqRange(THIRD_PARTY_PROJECTS) :
      /\ path \in DOMAIN merge_info
      /\ NonEmptyHolders(deps_vars, path) # {}
      /\ ComesFrom(deps_vars, path, Min(NonEmptyHolders(deps_vars, path)))

\* the mapping is returned for a project that deps lists as None and both deps_os
\* tables list with a value: the unix value is the one used
C1_Witness ==
  /\ MergeInfoReturned
  /\ Holders(deps_vars, WEBKIT) = {1, 2, 3}
  /\ NonEmptyHolders(deps_vars, WEBKIT) = {2, 3}
  /\ merge_info[WEBKIT].url = <<"unix">>

\* the i-th project has no entry in any of the three tables
NoEntry(dv, i) == Holders(dv, THIRD_PARTY_PROJECTS[i]) = {}

\* the i-th project resolves: its first non-empty value splits at an '@'
Resolves(dv, i) ==
  LET path == THIRD_PARTY_PROJECTS[i]
  IN /\ NonEmptyHolders(dv, path) # {}
     /\ "@" \in SeqRange(PriorityTables(dv)[Min(NonEmptyHolders(dv, path))][SrcKey(path)].s)

GitWork == {"checkout", "fetch", "merge", "commit_merge"}

Carriers(h, n) == {c \in SeqRange(h) : n \in {c.rev, c.quoted}}

\* Snapshot's call of _GetSVNRevisionAndSHA1 returned for a numeric revision
\* (given, or the last known good one)
LocatedByNumber ==
  /\ pc = "rev_list"
  /\ options.sha1 = None
  /\ options.svn_revision # HEAD

\* C3: for a numeric revision (explicit or last-known-good) carried by the trailers
\* of two or more commits of the tracked branch, the returned hash is that of the
\* oldest of them, however many there are.
C3_OldestOfSeveralCarriers ==
  (LocatedByNumber /\ Cardinality(Carriers(history, svn_revision)) >= 2) =>
    /\ root_sha1 \in {c.sha1 : c \in Carriers(history, svn_revision)}
    /\ \A c \in Carriers(history, svn_revision) : root_sha1 <= c.sha1

\* r1 is carried by its commit and by a newer commit that quotes it, a third commit
\* carries r10, and the locator asked for r1 returned the oldest
C3_Witness ==
  /\ LocatedByNumber
  /\ options.svn_revision = 1
  /\ Cardinality(Carriers(history, 1)) = 2
  /\ \E c \in SeqRange(history) : c.rev = 10
  /\ root_sha1 = 1

\* Snapshot's call of _GetSVNRevisionAndSHA1 returned
SnapshotLocated ==
  /\ "Snapshot" \in called
  /\ pc \notin {"main", "locate"}
  /\ ~(pc = "raised" /\ error.cause \in {"git_show_failed", "revision_trailer_missing",
                                         "revision_not_found"})

\* C10: whichever of the four input shapes is used (hash, 'HEAD', a number, nothing),
\* a successful _GetSVNRevisionAndSHA1 yields a numeric revision and a hash of the
\* branch, both known before the first checkout or merge; a supplied hash is
\* returned as it is, with the revision of its own commit, whatever revision was
\* requested.
C10_RevisionAndHashBothKnown ==
  /\ SnapshotLocated =>
       /\ svn_revision \in Nat \ {None}
       /\ root_sha1 \in {c.sha1 : c \in SeqRange(history)}
       /\ options.sha1 # None =>
            /\ root_sha1 = options.sha1
            /\ svn_revision = CommitOf(history, options.sha1).rev
       /\ (options.sha1 = None /\ options.svn_revision \notin {None, HEAD}) =>
            svn_revision = options.svn_revision
  /\ (\E o \in ops : o.op \in {"checkout", "merge"}) => SnapshotLocated

\* hash 1 given together with revision 2: the merge ran with hash 1 and its own r1
C10_Witness ==
  /\ options.sha1 = 1
  /\ options.svn_revision = 2
  /\ root_sha1 = 1
  /\ svn_revision = 1
  /\ CheckoutOp(ROOT) \in ops

(***************************************************************************)
(* Claims about the url/sha1 split (SplitSpec) and Var (LookupSpec)        *)
(***************************************************************************)
\* a value of the form url@sha1: an '@', and no line break in the url or the hash
IsUrlAtSha1(s) == "@" \in SeqRange(s) /\ "NL" \notin SeqRange(s)

\* C6: for every value of the form url@sha1, with one '@' or several, the url and
\* sha1 produced satisfy url + '@' + sha1 = value.
C6_SplitRoundTrip ==
  (split_result # NotSplit /\ IsUrlAtSha1(url_plus_sha1)) =>
    /\ split_result.matched
    /\ split_result.url \o <<"@">> \o split_result.sha1 = url_plus_sha1

\* a value with two '@' was split at the first one
C6_Witness ==
  /\ url_plus_sha1 = <<"a", "@", "a", "@">>
  /\ split_result = [matched |-> TRUE, url |-> <<"a">>, sha1 |-> <<"a", "@">>]

\* C7: Var(name) is the override when the override table has the name, else the
\* manifest's vars entry when there is one, else it fails as undefined; a manifest
\* without a vars table behaves as one with an empty table.
C7_VarLookupOrder ==
  lookup_result # NoLookup =>
    IF var_name \in DOMAIN custom_vars
    THEN lookup_result = [raised |-> FALSE, value |-> custom_vars[var_name]]
    ELSE IF "vars" \in DOMAIN local_scope /\ var_name \in DOMAIN local_scope["vars"]
    THEN lookup_result = [raised |-> FALSE, value |-> local_scope["vars"][var_name]]
    ELSE lookup_result.raised

\* X is overridden to "2" while the manifest's vars give it "1": the call returned "2"
C7_Witness ==
  /\ var_name = "X"
  /\ "X" \in DOMAIN custom_vars
  /\ custom_vars["X"] = "2"
  /\ "vars" \in DOMAIN local_scope
  /\ "X" \in DOMAIN local_scope["vars"]
  /\ local_scope["vars"]["X"] = "1"
  /\ lookup_result = [raised |-> FALSE, value |-> "2"]

(***************************************************************************)
(* Claims about a whole run, checked under Spec                            *)
(***************************************************************************)
\* C4: when the resolved root hash is reachable from the local HEAD, Snapshot returns
\* False, and a run in which it does has read no manifest and performed no
\* checkout, fetch, merge, git rm, file write or commit.
C4_NoNewCommitsNoWork ==
  /\ snapshot_result = "False" =>
       /\ pc = "done"
       /\ root_sha1 # None /\ root_sha1 <= local_head
       /\ ops = {}
       /\ staged = {}
       /\ deps_vars = EmptyDict
       /\ merge_info = EmptyDict
       /\ exit_code = Exit(options.no_changes_exit)
  /\ (/\ SnapshotLocated
      /\ pc # "rev_list"
      /\ Op("commit_merge", ROOT) \notin ops
      /\ root_sha1 <= local_head) => snapshot_result = "False"

\* the requested revision is the one HEAD already holds
C4_Witness ==
  /\ snapshot_result = "False"
  /\ root_sha1 = local_head
  /\ pc = "done"
  /\ ops = {}

RegenOps == {"write_notice", "commit_notice", "write_lastchange", "commit_lastchange",
             "rm_makefiles", "add_makefiles", "commit_makefiles", "reset_hard"}

\* the run is at, or past, the first step of artifact regeneration
RegenReached ==
  \/ pc \in {"notice", "lastchange", "makefiles", "gyp", "add_makefiles"}
  \/ \E o \in ops : o.op \in RegenOps

Scanned == Op("license_scan", ROOT) \in ops

\* C5: artifact regeneration is reached if and only if the license scan run after
\* the exclusions reports no directory; when it reports some, the run fails with
\* TemporaryMergeError listing every reported directory and no NOTICE, LASTCHANGE
\* or makefile step executes.
C5_RegenerationIffScanClean ==
  /\ RegenReached <=> (Scanned /\ directories_left_over = {})
  /\ (Scanned /\ directories_left_over # {}) =>
       /\ pc = "raised"
       /\ error.exc = "TemporaryMergeError"
       /\ error.dirs = directories_left_over

\* the scan reported every directory and the run failed listing them all
C5_Witness ==
  /\ Scanned
  /\ directories_left_over = Directories
  /\ error.dirs = Directories
  /\ pc = "raised"

\* C8: a missing manifest entry, directories left after exclusion and a generator
\* failure in unattended mode raise TemporaryMergeError; a missing revision trailer,
\* an undefined manifest variable, a malformed manifest and a residual merge
\* conflict raise some other class; whatever is raised ends the run there, without
\* a return value.
C8_ErrorClassification ==
  error # NoError =>
    /\ pc = "raised"
    /\ exit_code = NoExit
    /\ error.cause \in {"manifest_entry_missing", "incompatible_directories"} =>
         error.exc = "TemporaryMergeError"
    /\ (error.cause = "generator_failed" /\ options.unattended) =>
         error.exc = "TemporaryMergeError"
    /\ error.cause \in {"revision_trailer_missing", "var_undefined", "malformed_manifest",
                        "merge_conflict"} =>
         error.exc # "TemporaryMergeError"

\* the generator failed in an unattended run
C8_Witness ==
  /\ error = Raise("TemporaryMergeError", "generator_failed")
  /\ options.unattended
  /\ pc = "raised"

\* the usage errors as C9 states them
UsageErrorAsStated ==
  args \/ ~environ \/ (options.push /\ options.svn_revision = None)

\* --push without --svn_revision is a usage error only when neither --get_lkgr nor
\* --get_head is given: those are served first (lines 510-515)
UsageError ==
  args \/ ~environ \/ (/\ options.push /\ options.svn_revision = None
                       /\ ~options.get_lkgr /\ ~options.get_head)

\* what main returns when there is no usage error
SuccessExit ==
  /\ exit_code = (IF snapshot_result = "False" THEN Exit(options.no_changes_exit) ELSE Exit(0))
  /\ "Snapshot" \in called => snapshot_result \in {"True", "False"}
  /\ "Push" \in called =>
       \A k \in 1..Len(PushOrder) : PushOp(PushOrder[k][2], PushOrder[k][1]) \in ops

\* C9 as stated: main returns 1 without invoking GetLKGR, GetHEAD, Push or Snapshot
\* on positional arguments, without ANDROID_BUILD_TOP, or on --push without
\* --svn_revision; otherwise 0 after a completed action, and the --no_changes_exit
\* value exactly when Snapshot reports no new commits.
C9_ExitCodesAsStated ==
  /\ (pc # "main" /\ UsageErrorAsStated) =>
       pc = "done" /\ exit_code = Exit(1) /\ called = {} /\ ops = {}
  /\ (pc = "done" /\ ~UsageErrorAsStated) => SuccessExit

\* C9 amended: as stated, except that --push without --svn_revision returns 1 only
\* when neither --get_lkgr nor --get_head is given; with one of them main serves
\* that option and returns 0.
C9_ExitCodes ==
  /\ (pc # "main" /\ UsageError) =>
       pc = "done" /\ exit_code = Exit(1) /\ called = {} /\ ops = {}
  /\ (pc = "done" /\ ~UsageError) => SuccessExit

\* --push alone, without a revision: main returned 1 and invoked nothing
C9_Witness ==
  /\ pc = "done"
  /\ ~args /\ environ
  /\ options.push /\ options.svn_revision = None
  /\ ~options.get_lkgr /\ ~options.get_head
  /\ exit_code = Exit(1)
  /\ called = {}

\* the step whose commands a commit records
StepOfCommit(op) ==
  CASE op = "commit_exclude" -> "exclude"
    [] op = "commit_notice" -> "write_notice"
    [] op = "commit_lastchange" -> "write_lastchange"
    [] op = "commit_makefiles" -> "makefiles"

StepCommits == {"commit_exclude", "commit_notice", "commit_lastchange", "commit_makefiles"}

\* C11: the exclusion commit of a project, the NOTICE commit, the LASTCHANGE commit
\* and the makefile commit of a project exist only if the step they belong to
\* changed that project's index: an unchanged NOTICE or LASTCHANGE, and makefiles
\* regenerated identical to the removed ones, give no commit.
C11_NoNoOpCommits ==
  \A o \in ops :
    o.op \in StepCommits => Change(StepOfCommit(o.op), o.project) \in index_changes

\* a finished run that committed a changed NOTICE, left LASTCHANGE as it was, and
\* committed makefiles in WebKit but not in the root
C11_Witness ==
  /\ pc = "done"
  /\ snapshot_result = "True"
  /\ Op("commit_notice", ROOT) \in ops
  /\ Op("write_lastchange", ROOT) \in ops
  /\ Op("commit_lastchange", ROOT) \notin ops
  /\ Op("add_makefiles", ROOT) \in ops
  /\ Op("commit_makefiles", ROOT) \notin ops
  /\ Op("commit_makefiles", WEBKIT) \in ops

MakefileReadds == {o \in ops : o.op \in {"add_makefiles", "commit_makefiles"}}

Resets == {o \in ops : o.op = "reset_hard"}

\* C12: when the generator fails in unattended mode every project of ALL_PROJECTS
\* is hard-reset and TemporaryMergeError is raised; in attended mode the failure is
\* passed on as it is and no project is reset; in both modes no makefile is
\* re-added or committed.  Nothing else resets a project.
C12_GeneratorFailure ==
  /\ error.cause = "generator_failed" =>
       /\ pc = "raised"
       /\ MakefileReadds = {}
       /\ IF options.unattended
          THEN /\ error.exc = "TemporaryMergeError"
               /\ Resets = {Op("reset_hard", p) : p \in SeqRange(ALL_PROJECTS)}
               /\ staged = {}
          ELSE /\ error.exc = "MergeError"
               /\ Resets = {}
  /\ Resets # {} => (error.cause = "generator_failed" /\ options.unattended)

\* an unattended run whose generator failed after makefiles had been removed
C12_Witness ==
  /\ options.unattended
  /\ error = Raise("TemporaryMergeError", "generator_failed")
  /\ Op("rm_makefiles", WEBKIT) \in ops
  /\ Op("reset_hard", WEBKIT) \in ops
  /\ Op("reset_hard", "sdch") \in ops

(***************************************************************************)
(* Claims about the revision locator on numeric revisions (LocateSpec)     *)
(***************************************************************************)
\* the commits of h whose message holds a trailer line with exactly the number n
Encoding(h, n) == {c \in SeqRange(h) : n \in TrailerNumbers(c)}

\* C13: for an explicit or last-known-good numeric revision N, the commit whose
\* hash _GetSVNRevisionAndSHA1 returns carries a trailer encoding exactly N, never
\* one whose number merely begins with the digits of N, and when no commit encodes
\* exactly N the call fails with revision-not-found.
C13_ExactRevisionSelected ==
  (options.sha1 = None /\ options.svn_revision # HEAD /\ pc # "locate") =>
    /\ pc = "rev_list" => CommitOf(history, root_sha1) \in Encoding(history, svn_revision)
    /\ (options.svn_revision # None /\ Encoding(history, options.svn_revision) = {}) =>
         (pc = "raised" /\ error = Raise("TemporaryMergeError", "revision_not_found"))

(***************************************************************************)
(* Claims about a manifest without deps_os (MergeSpec)                     *)
(***************************************************************************)
\* the manifest assigns deps and not deps_os, and every entry of deps is a url@sha1
OmitsDepsOs(dv) ==
  /\ DOMAIN dv = {"deps"}
  /\ \A k \in DOMAIN dv["deps"] : dv["deps"][k] = GoodValue("deps", k[2])

\* C14: when the manifest defines deps and not deps_os, deps_os counts as empty:
\* if deps lists every requested path the call returns each entry's url and sha1,
\* and if some path is not in deps the call fails with the manifest-entry-missing
\* TemporaryMergeError, not with any other failure.
C14_OmittedDepsOsIsEmpty ==
  (pc # "merge_info" /\ OmitsDepsOs(deps_vars)) =>
    IF Keys \subseteq DOMAIN deps_vars["deps"]
    THEN /\ error # Raise("KeyError", "manifest_table_missing")
         /\ DOMAIN merge_info = SeqRange(THIRD_PARTY_PROJECTS)
         /\ \A path \in DOMAIN merge_info :
              merge_info[path] = [url |-> <<"deps">>, sha1 |-> <<path>>]
    ELSE /\ pc = "raised"
         /\ error.exc = "TemporaryMergeError"
         /\ error.cause = "manifest_entry_missing"

(***************************************************************************)
(* Claims about the merge commits of _MergeProjects (Spec)                 *)
(***************************************************************************)
\* C15: a merge commit of a third-party project or of the root exists only where
\* git merge --no-commit ran and the conflict check after it found no conflict
\* left; a non-zero exit of git merge does not end the run, so the check and the
\* commit still follow it; a conflict left over ends the run with an error that is
\* not TemporaryMergeError; a third-party project without new commits is neither
\* merged nor committed.
C15_MergeCommitsOnlyAfterConflictCheck ==
  /\ \A m \in merged :
       /\ ~m.new => (Op("merge", m.project) \notin ops /\ Op("commit_merge", m.project) \notin ops)
       /\ m.new => Op("merge", m.project) \in ops
       /\ (m.new /\ ~m.residual) => Op("commit_merge", m.project) \in ops
       /\ m.residual =>
            /\ Op("commit_merge", m.project) \notin ops
            /\ pc = "raised"
            /\ error.cause = "merge_conflict"
            /\ error.exc # "TemporaryMergeError"
  /\ \A o \in ops :
       o.op = "commit_merge" =>
         \E m \in merged : m.project = o.project /\ m.new /\ ~m.residual

\* git merge exited 1 in WebKit and in the root, no conflict was left, both were
\* committed and the run finished; sdch had no new commits
C15_Witness ==
  /\ Merge(WEBKIT, TRUE, 1, FALSE) \in merged
  /\ Merge(ROOT, TRUE, 1, FALSE) \in merged
  /\ Merge("sdch", FALSE, 0, FALSE) \in merged
  /\ Op("commit_merge", WEBKIT) \in ops
  /\ Op("commit_merge", ROOT) \in ops
  /\ CheckoutOp("sdch") \in ops
  /\ snapshot_result = "True"

(***************************************************************************)
(* Claims about what a failed run leaves behind (Spec)                     *)
(***************************************************************************)
\* the step ends the run with an exception other than the TemporaryMergeError of
\* an unattended generator failure
FailsWithoutRollback ==
  /\ pc # "raised"
  /\ pc' = "raised"
  /\ ~(error'.cause = "generator_failed" /\ options.unattended)

\* C16: a step that fails the run anywhere but at the generator in unattended mode
\* runs no reset and takes nothing back: every branch checked out, every merge and
\* commit made, and every staged change present before the step is present after it.
C16_NoRollbackOnOtherFailures ==
  [][FailsWithoutRollback =>
       /\ ops \subseteq ops'
       /\ staged \subseteq staged'
       /\ merged \subseteq merged'
       /\ index_changes \subseteq index_changes'
       /\ \A o \in ops' : o.op # "reset_hard"]_vars

\* an attended run whose generator failed: the merge commits and the staged
\* removal of the makefiles are still there, and nothing was reset
C16_Witness ==
  /\ pc = "raised"
  /\ ~options.unattended
  /\ error = Raise("MergeError", "generator_failed")
  /\ Op("commit_merge", ROOT) \in ops
  /\ Op("commit_merge", WEBKIT) \in ops
  /\ staged = SeqRange(ALL_PROJECTS)
  /\ Resets = {}

(***************************************************************************)
(* Claims about re-invoking the tool after a recoverable failure           *)
(* (RetrySpec)                                                             *)
(***************************************************************************)
\* C17: when a Snapshot run for revision R failed with TemporaryMergeError after
\* the root merge was committed (directories left over, or the generator in
\* unattended mode), Snapshot re-invoked for the same R runs the failed step and
\* the steps after it: it does not return the 'no new commits' result.
C17_RetryReexecutesFailedStep ==
  (pc = "done" /\ Op("commit_merge", ROOT) \in ops) => snapshot_result = "True"

(***************************************************************************)
(* Claims about the merge branch across Snapshot and Push (BranchSpec)     *)
(***************************************************************************)
Checkouts == {o \in ops : o.op = "checkout"}

Pushes == {o \in ops : o.op = "push"}

\* C18: for a --svn_revision that is a number or HEAD, the branch Push pushes from
\* in a project is the branch Snapshot checked out there for the same argument,
\* and that branch is named after the numeric revision.
C18_PushSourceIsSnapshotBranch ==
  /\ \A c \in Checkouts : c.branch # BranchName(HEAD)
  /\ \A o \in Pushes :
       \E c \in Checkouts, dest \in SeqRange(PUSH_BRANCHES) :
         /\ c.project = o.project
         /\ o.branch = Refspec(c.branch, dest)

(***************************************************************************)
(* Claims about the order of the pushes (Spec)                             *)
(***************************************************************************)
PushedTo(branch) == {p \in SeqRange(ALL_PROJECTS) : PushOp(p, branch) \in ops}

\* C19: Push updates 'master-chromium' of a project only after the push to
\* 'master-chromium-merge' succeeded in every project of ALL_PROJECTS, and a push
\* that fails ends the run, so no later push is made.
C19_MergeBranchPushedEverywhereFirst ==
  /\ PushedTo("master-chromium") # {} =>
       PushedTo("master-chromium-merge") = SeqRange(ALL_PROJECTS)
  /\ error.cause = "push_failed" =>
       /\ pc = "raised"
       /\ Cardinality(Pushes) = Len(PushOrder) - Len(todo)
       /\ \A k \in 1..Len(todo) :
            PushOp(todo[k][2], todo[k][1]) \notin ops

\* the second push to 'master-chromium' failed: every project was pushed to
\* 'master-chromium-merge', only the root to 'master-chromium'
C19_Witness ==
  /\ error.cause = "push_failed"
  /\ PushedTo("master-chromium-merge") = SeqRange(ALL_PROJECTS)
  /\ PushedTo("master-chromium") = {ROOT}

====
